---- MODULE Spec2Model ----
(***************************************************************************)
(* Model of check_aprs.py: the APRSListener that turns APRS-IS frames into *)
(* Icinga passive check results.                                           *)
(*                                                                         *)
(* Text is modelled as Python models it: a bytes object is a sequence of   *)
(* byte values 0..255, a str is a sequence of Unicode code points.         *)
(* String literals of the program are written as their code points, with   *)
(* the literal in a comment.                                               *)
(***************************************************************************)
EXTENDS Integers, Sequences, FiniteSets, TLC

(***************************************************************************)
(* Bounds of the model.                                                    *)
(***************************************************************************)
\* frames the relay delivers in one session (Spec)
MaxFrames == 2
\* length of the free part of a comment (SpecClassify)
MaxCommentLen == 4

(***************************************************************************)
(* Literals of the program.                                                *)
(***************************************************************************)
\* b"#"  (line 54)
HASH == <<35>>
\* ","  (lines 55, 67)
COMMA == <<44>>
\* b"IGATE,"  (line 65)
IGATE == <<73, 71, 65, 84, 69, 44>>
\* "telem_seq="  (line 57)
STR_telem_seq == <<116, 101, 108, 101, 109, 95, 115, 101, 113, 61>>
\* "telem_analog"  (line 58)
STR_telem_analog == <<116, 101, 108, 101, 109, 95, 97, 110, 97, 108, 111, 103>>
\* "="  (line 58)
STR_eq == <<61>>
\* "telem_bits="  (line 59)
STR_telem_bits == <<116, 101, 108, 101, 109, 95, 98, 105, 116, 115, 61>>
\* "OK: "  (line 31)
STR_OK == <<79, 75, 58, 32>>
\* 'service.name=="aprsis" && host.vars.aprs.callsign=="'  (line 29)
STR_filter_head == <<115, 101, 114, 118, 105, 99, 101, 46, 110, 97, 109, 101, 61,
                     61, 34, 97, 112, 114, 115, 105, 115, 34, 32, 38, 38, 32, 104,
                     111, 115, 116, 46, 118, 97, 114, 115, 46, 97, 112, 114, 115,
                     46, 99, 97, 108, 108, 115, 105, 103, 110, 61, 61, 34>>
\* '"'  (line 29)
STR_quote == <<34>>
\* "filter b/"  (line 88)
STR_filter_b == <<102, 105, 108, 116, 101, 114, 32, 98, 47>>
\* "/"  (line 88)
SLASH == <<47>>

(***************************************************************************)
(* Python built-ins used by the program.                                   *)
(***************************************************************************)
\* bytes.startswith(prefix)
StartsWith(s, p) == Len(s) >= Len(p) /\ SubSeq(s, 1, Len(p)) = p

\* mutant: the decoder accepts every byte (errors="replace")
IsAsciiLenient(b) == TRUE

\* bytes.decode("ascii") succeeds iff every byte is below 128; the decoded
\* str then has one code point per byte, equal to the byte's value.
IsAscii(b) == \A i \in 1..Len(b) : b[i] < 128

\* comment[1:]
DropFirst(s) == SubSeq(s, 2, Len(s))

\* index of the first occurrence of the one-character separator, 0 if none
FindSep(s, sep) ==
  IF \E i \in 1..Len(s) : s[i] = sep[1]
  THEN CHOOSE i \in 1..Len(s) : s[i] = sep[1] /\ \A j \in 1..(i - 1) : s[j] # sep[1]
  ELSE 0

RECURSIVE Split(_, _)
\* str.split(sep) for a one-character separator: always at least one field
Split(s, sep) ==
  LET i == FindSep(s, sep)
  IN IF i = 0 THEN <<s>>
     ELSE <<SubSeq(s, 1, i - 1)>> \o Split(SubSeq(s, i + 1, Len(s)), sep)

RECURSIVE Join(_, _)
\* sep.join(list)
Join(l, sep) ==
  IF Len(l) = 0 THEN <<>>
  ELSE IF Len(l) = 1 THEN l[1]
  ELSE l[1] \o sep \o Join(Tail(l), sep)

RECURSIVE IntStr(_)
\* str(n) for n >= 0, as an f-string formats {idx}
IntStr(n) ==
  IF n < 10 THEN <<48 + n>> ELSE IntStr(n \div 10) \o <<48 + (n % 10)>>

(***************************************************************************)
(* submit_check (lines 26-44).                                             *)
(***************************************************************************)
\* the performance_data parameter (line 26): None by default, or a list
None == [isNone |-> TRUE]
List(l) == [isNone |-> FALSE, list |-> l]

\* mutant: the status is taken from the message (empty message: UNKNOWN)
BaseDataByMessage(callsign, message) ==
  [type |-> "Service",
   filter |-> STR_filter_head \o callsign \o STR_quote,
   exit_status |-> IF Len(message) > 1 THEN 0 ELSE 3,
   plugin_output |-> STR_OK \o message,
   check_source |-> "APRSIS"]

\* mutant: the filter names the listener's own callsign (line 86)
BaseDataOwnCall(callsign, message) ==
  [type |-> "Service",
   filter |-> STR_filter_head \o <<75, 67, 49, 71, 68, 87>> \o STR_quote,
   exit_status |-> 0,
   plugin_output |-> STR_OK \o message,
   check_source |-> "APRSIS"]

\* lines 27-33: the request body before the optional field
BaseData(callsign, message) ==
  [type |-> "Service",
   filter |-> STR_filter_head \o callsign \o STR_quote,
   exit_status |-> 0,
   plugin_output |-> STR_OK \o message,
   check_source |-> "APRSIS"]

\* mutant: the field is set whether or not a value was given
SubmitCheckDataAlways(callsign, message, performance_data) ==
  BaseData(callsign, message)
    @@ [performance_data |->
          IF performance_data.isNone THEN <<>> ELSE performance_data.list]

\* lines 27-36: the JSON body of the POST
SubmitCheckData(callsign, message, performance_data) ==
  IF ~performance_data.isNone
  THEN BaseData(callsign, message) @@ [performance_data |-> performance_data.list]
  ELSE BaseData(callsign, message)

\* click.echo(message, file, err=...): writes message to file, or to stderr
\* when file is None and err is set. A file object without a write method
\* makes echo raise AttributeError and nothing is written.
ClickEcho(file, err) ==
  IF file = "None"
  THEN [written |-> TRUE, to |-> IF err THEN "stderr" ELSE "stdout"]
  ELSE IF file \in {"stdout", "stderr"}
  THEN [written |-> TRUE, to |-> file]
  ELSE [written |-> FALSE, exc |-> "AttributeError"]

\* lines 43-44: what submit_check does with the response status.
\* click.echo("Error:", r.text, err=True) passes the bound method r.text as
\* echo's second positional parameter, which is file.
OnResponse(status) ==
  IF status # 200
  THEN ClickEcho("r.text", TRUE)
  ELSE [written |-> FALSE]

(***************************************************************************)
(* handle_packet (lines 46-73).                                            *)
(***************************************************************************)
\* aprs.PositionReport is a subclass of aprs.InformationField
IsInformationField(info) == info.class \in {"InformationField", "PositionReport"}

\* line 49
CasePosition(info) == info.class = "PositionReport"

\* lines 52-54
CaseTelemetry(info) ==
  /\ IsInformationField(info)
  /\ info.data_type = "TELEMETRY_DATA"
  /\ StartsWith(info.comment, HASH)

\* lines 63-65
CaseIgate(info) ==
  /\ IsInformationField(info)
  /\ info.data_type = "STATION_CAPABILITIES"
  /\ StartsWith(info.comment, IGATE)

\* line 72
CaseGeneric(info) == IsInformationField(info)

\* the case patterns in the order the match statement lists them
Matches(info) ==
  <<CasePosition(info), CaseTelemetry(info), CaseIgate(info), CaseGeneric(info)>>

\* mutant: the last matching case wins
MatchedCaseLast(info) ==
  IF \E i \in 1..4 : Matches(info)[i]
  THEN CHOOSE i \in 1..4 : Matches(info)[i] /\ \A j \in (i + 1)..4 : ~Matches(info)[j]
  ELSE 0

\* a match statement runs the first case whose pattern and guard hold;
\* 0 when no case matches (the statement then does nothing)
MatchedCase(info) ==
  IF \E i \in 1..4 : Matches(info)[i]
  THEN CHOOSE i \in 1..4 : Matches(info)[i] /\ \A j \in 1..(i - 1) : ~Matches(info)[j]
  ELSE 0

Raise(branch, exc) == [kind |-> "raise", branch |-> branch, exc |-> exc]
Post(branch, data) == [kind |-> "post", branch |-> branch, data |-> data]

\* mutant: the analog fields are numbered from 1
TelemMetricsFrom1(seq, analog, bits) ==
  <<STR_telem_seq \o seq>>
  \o [i \in 1..Len(analog) |-> STR_telem_analog \o IntStr(i) \o STR_eq \o analog[i]]
  \o <<STR_telem_bits \o bits>>

\* lines 56-60
TelemMetrics(seq, analog, bits) ==
  <<STR_telem_seq \o seq>>
  \o [i \in 1..Len(analog) |-> STR_telem_analog \o IntStr(i - 1) \o STR_eq \o analog[i]]
  \o <<STR_telem_bits \o bits>>

\* lines 49-50
BodyPosition(packet) ==
  IF ~IsAscii(packet.info.comment)
  THEN Raise("position", "UnicodeDecodeError")
  ELSE Post("position", SubmitCheckData(packet.source, packet.info.comment, None))

\* mutant: a comment with a single field is taken as a seq without bits
BodyTelemetryLenient(packet) ==
  LET comment == packet.info.comment
      fields == Split(DropFirst(comment), COMMA)
      n == Len(fields)
  IN IF ~IsAscii(comment)
     THEN Raise("telemetry", "UnicodeDecodeError")
     ELSE IF n < 2
     THEN Post("telemetry",
               SubmitCheckData(packet.source, comment,
                               List(<<STR_telem_seq \o fields[1]>>)))
     ELSE Post("telemetry",
               SubmitCheckData(packet.source, comment,
                               List(TelemMetrics(fields[1], SubSeq(fields, 2, n - 1),
                                                 fields[n]))))

\* lines 55-61
BodyTelemetry(packet) ==
  LET comment == packet.info.comment
      fields == Split(DropFirst(comment), COMMA)
      n == Len(fields)
  IN IF ~IsAscii(DropFirst(comment))
     THEN Raise("telemetry", "UnicodeDecodeError")
     ELSE IF n < 2
     THEN Raise("telemetry", "ValueError")
     ELSE IF ~IsAscii(comment)
     THEN Raise("telemetry", "UnicodeDecodeError")
     ELSE Post("telemetry",
               SubmitCheckData(packet.source, comment,
                               List(TelemMetrics(fields[1], SubSeq(fields, 2, n - 1),
                                                 fields[n]))))

\* mutant: the leading tag is not dropped
IgateStatsKeepTag(comment) == Split(comment, COMMA)

\* line 67
IgateStats(comment) == Tail(Split(comment, COMMA))

\* lines 66-70
BodyIgate(packet) ==
  LET comment == packet.info.comment
  IN IF ~IsAscii(comment)
     THEN Raise("igate", "UnicodeDecodeError")
     ELSE Post("igate", SubmitCheckData(packet.source, comment,
                                   List(IgateStats(comment))))

\* lines 72-73
BodyGeneric(packet) ==
  IF ~IsAscii(packet.info.comment)
  THEN Raise("generic", "UnicodeDecodeError")
  ELSE Post("generic", SubmitCheckData(packet.source, packet.info.comment, None))

\* handle_packet up to the point where the POST is issued: either the request
\* body it submits, or the exception that ends the coroutine
HandlePacket(packet) ==
  LET c == MatchedCase(packet.info)
  IN CASE c = 1 -> BodyPosition(packet)
       [] c = 2 -> BodyTelemetry(packet)
       [] c = 3 -> BodyIgate(packet)
       [] c = 4 -> BodyGeneric(packet)
       [] OTHER -> [kind |-> "nop", branch |-> "none"]

(***************************************************************************)
(* Inputs: what the backend and the relay may deliver.                     *)
(***************************************************************************)
\* "W1FN", "KC1GDW": two station callsigns
CS1 == <<87, 49, 70, 78>>
CS2 == <<75, 67, 49, 71, 68, 87>>
Callsigns == {CS1, CS2}

\* results of the host inventory query (get_callsigns, lines 16-24)
FetchResults == {<<>>, <<CS1>>, <<CS1, CS2>>}

\* byte values a comment is built from: '#', ',', '0' and a non-ASCII byte
Alphabet == {35, 44, 48, 233}
BytesUpTo(n) == UNION {[1..k -> Alphabet] : k \in 0..n}

\* comments of the classification specification: every byte string over the
\* alphabet up to the bound, and the same (one byte shorter) after b"IGATE,"
Comments ==
  BytesUpTo(MaxCommentLen) \cup {IGATE \o t : t \in BytesUpTo(MaxCommentLen - 1)}

\* the information fields the aprs library decodes a frame into
InfoShapes ==
  {[class |-> "PositionReport", data_type |-> "POSITION"],
   [class |-> "InformationField", data_type |-> "TELEMETRY_DATA"],
   [class |-> "InformationField", data_type |-> "STATION_CAPABILITIES"],
   [class |-> "InformationField", data_type |-> "STATUS"]}

Frame(source, shape, comment) ==
  [source |-> source,
   info |-> [class |-> shape.class, data_type |-> shape.data_type, comment |-> comment]]

AllFrames == {Frame(c, sh, cm) : c \in Callsigns, sh \in InfoShapes, cm \in Comments}

\* the frames of the session specification: one per branch of handle_packet,
\* plus one that fails to decode and one telemetry comment with a single field
FeedFrames ==
  {Frame(CS1, [class |-> "PositionReport", data_type |-> "POSITION"], <<35, 48>>),
   Frame(CS1, [class |-> "InformationField", data_type |-> "TELEMETRY_DATA"],
         <<35, 48, 44, 48>>),
   Frame(CS2, [class |-> "InformationField", data_type |-> "STATION_CAPABILITIES"],
         IGATE \o <<48>>),
   Frame(CS2, [class |-> "InformationField", data_type |-> "STATUS"], <<48>>),
   Frame(CS1, [class |-> "InformationField", data_type |-> "STATUS"], <<233>>),
   Frame(CS2, [class |-> "InformationField", data_type |-> "TELEMETRY_DATA"], <<35>>)}

\* the frames of the decoding specification: a comment with a non-ASCII byte
\* for each branch of handle_packet, and one frame that decodes
MalformedFrames ==
  {Frame(CS1, [class |-> "PositionReport", data_type |-> "POSITION"], <<48, 233>>),
   Frame(CS1, [class |-> "InformationField", data_type |-> "TELEMETRY_DATA"],
         <<35, 48, 44, 233>>),
   Frame(CS2, [class |-> "InformationField", data_type |-> "STATION_CAPABILITIES"],
         IGATE \o <<233>>),
   Frame(CS2, [class |-> "InformationField", data_type |-> "STATUS"], <<233, 48>>),
   Frame(CS1, [class |-> "InformationField", data_type |-> "STATUS"], <<48>>)}

\* HTTP status codes the backend answers a submission with
Statuses == {200, 500}

\* bodies of an answer to the host inventory query: not JSON, JSON without
\* the keys line 21-23 read, or JSON with a results list of callsigns
DirectoryBodies ==
  {[kind |-> "not_json"], [kind |-> "no_results"]}
    \cup {[kind |-> "results", results |-> cs] : cs \in FetchResults}

\* answers to the host inventory query: no answer (transport error), or a
\* status and a body
DirectoryResponses ==
  {[transport |-> "error"]}
    \cup {[transport |-> "ok", status |-> st, body |-> b] :
            st \in Statuses, b \in DirectoryBodies}

\* no query issued yet
NoResponse == [transport |-> "none"]

(***************************************************************************)
(* get_callsigns (lines 16-24).                                            *)
(***************************************************************************)
\* mutant: a non-success status raises (raise_for_status)
GetCallsignsChecked(r) ==
  IF r.transport = "error" THEN [raised |-> TRUE, exc |-> "ClientError"]
  ELSE IF r.status # 200 THEN [raised |-> TRUE, exc |-> "ClientResponseError"]
  ELSE IF r.body.kind = "not_json" THEN [raised |-> TRUE, exc |-> "ContentTypeError"]
  ELSE IF r.body.kind = "no_results" THEN [raised |-> TRUE, exc |-> "KeyError"]
  ELSE [raised |-> FALSE, value |-> r.body.results]

\* lines 17-24: the status of the answer is not read; the body is parsed as
\* JSON and the callsign of every entry of its results list is returned
GetCallsigns(r) ==
  IF r.transport = "error" THEN [raised |-> TRUE, exc |-> "ClientError"]
  ELSE IF r.body.kind = "not_json" THEN [raised |-> TRUE, exc |-> "ContentTypeError"]
  ELSE IF r.body.kind = "no_results" THEN [raised |-> TRUE, exc |-> "KeyError"]
  ELSE [raised |-> FALSE, value |-> r.body.results]

\* the answers get_callsigns returns a list for
Answered == {r \in DirectoryResponses : ~GetCallsigns(r).raised}

(***************************************************************************)
(* State.                                                                  *)
(***************************************************************************)
VARIABLES
  pc,          \* Listener state: "Starting", "Running", "Stopped"
  runExit,     \* how run() ended: "none", "return", "raise", "cancel"
  mainpc,      \* main(): "in_session", "session_closed", "loop_closed"
  callsigns,   \* the list get_callsigns returned
  fetches,     \* number of directory queries issued
  directory,   \* the answer the directory query got
  feedOpens,   \* commands of the feed connections opened, in order
  received,    \* frames read from the feed, in order
  tasks,       \* tasks[k]: the task created for received[k]
  posted,      \* requests that reached the backend, in order of arrival
  stderr       \* diagnostic lines written to standard error

vars == <<pc, runExit, mainpc, callsigns, fetches, directory, feedOpens, received,
          tasks, posted, stderr>>

Init ==
  /\ pc = "Starting"
  /\ runExit = "none"
  /\ mainpc = "in_session"
  /\ callsigns = <<>>
  /\ fetches = 0
  /\ directory = NoResponse
  /\ feedOpens = <<>>
  /\ received = <<>>
  /\ tasks = <<>>
  /\ posted = <<>>
  /\ stderr = {}

(***************************************************************************)
(* run (lines 75-93).                                                      *)
(***************************************************************************)
\* mutant: the filter names the first callsign only
FilterCommandFirst(cs) == STR_filter_b \o (IF cs = <<>> THEN <<>> ELSE cs[1])

\* line 88
FilterCommand(cs) == STR_filter_b \o Join(cs, SLASH)

\* mutant: the return of line 81 is missing, run goes on to open the feed
FetchEmptyNoReturn ==
  /\ pc = "Starting"
  /\ fetches' = fetches + 1
  /\ \E r \in Answered : GetCallsigns(r).value = <<>> /\ directory' = r
  /\ callsigns' = <<>>
  /\ feedOpens' = Append(feedOpens, FilterCommand(<<>>))
  /\ pc' = "Running"
  /\ UNCHANGED <<runExit, mainpc, received, tasks, posted, stderr>>

\* lines 76-81: the query answers with no host; run returns
FetchEmpty ==
  /\ pc = "Starting"
  /\ fetches' = fetches + 1
  /\ \E r \in Answered : GetCallsigns(r).value = <<>> /\ directory' = r
  /\ callsigns' = <<>>
  /\ pc' = "Stopped"
  /\ runExit' = "return"
  /\ UNCHANGED <<mainpc, feedOpens, received, tasks, posted, stderr>>

\* line 76: get_callsigns raises (transport error, body that is not JSON or
\* lacks the keys); the exception leaves run
FetchFail ==
  /\ pc = "Starting"
  /\ fetches' = fetches + 1
  /\ \E r \in DirectoryResponses : GetCallsigns(r).raised /\ directory' = r
  /\ pc' = "Stopped"
  /\ runExit' = "raise"
  /\ UNCHANGED <<mainpc, callsigns, feedOpens, received, tasks, posted, stderr>>

\* lines 76-89: a non-empty list, and the feed connection is opened
OpenFeed ==
  /\ pc = "Starting"
  /\ \E r \in Answered :
       /\ GetCallsigns(r).value # <<>>
       /\ directory' = r
       /\ callsigns' = GetCallsigns(r).value
       /\ feedOpens' = Append(feedOpens, FilterCommand(GetCallsigns(r).value))
  /\ fetches' = fetches + 1
  /\ pc' = "Running"
  /\ UNCHANGED <<runExit, mainpc, received, tasks, posted, stderr>>

\* lines 76-89: a non-empty list, and create_aprsis_connection raises
ConnectFail ==
  /\ pc = "Starting"
  /\ \E r \in Answered :
       /\ GetCallsigns(r).value # <<>>
       /\ directory' = r
       /\ callsigns' = GetCallsigns(r).value
  /\ fetches' = fetches + 1
  /\ pc' = "Stopped"
  /\ runExit' = "raise"
  /\ UNCHANGED <<mainpc, feedOpens, received, tasks, posted, stderr>>

\* asyncio.create_task (line 93): a task scheduled and not yet started
NewTask == [state |-> "pending", exc |-> "none", status |-> 0]

\* mutant: the loop awaits handle_packet instead of creating a task
ReadFrameAwaiting(frames, max) ==
  /\ pc = "Running"
  /\ Len(received) < max
  /\ \A k \in 1..Len(tasks) : tasks[k].state \in {"done", "raised"}
  /\ \E f \in frames : received' = Append(received, f)
  /\ tasks' = Append(tasks, NewTask)
  /\ UNCHANGED <<pc, runExit, mainpc, callsigns, fetches, directory, feedOpens, posted, stderr>>

\* mutant: a semaphore lets one task be in flight at a time
ReadFrameBounded(frames, max) ==
  /\ pc = "Running"
  /\ Len(received) < max
  /\ Cardinality({k \in 1..Len(tasks) :
                    tasks[k].state \in {"pending", "posting", "delivered"}}) < 1
  /\ \E f \in frames : received' = Append(received, f)
  /\ tasks' = Append(tasks, NewTask)
  /\ UNCHANGED <<pc, runExit, mainpc, callsigns, fetches, directory, feedOpens, posted,
                 stderr>>

\* lines 91-93: one iteration of the read loop
ReadFrame(frames, max) ==
  /\ pc = "Running"
  /\ Len(received) < max
  /\ \E f \in frames : received' = Append(received, f)
  /\ tasks' = Append(tasks, NewTask)
  /\ UNCHANGED <<pc, runExit, mainpc, callsigns, fetches, directory, feedOpens, posted, stderr>>

\* mutant: a dropped feed makes run start over
FeedEndReconnect ==
  /\ pc = "Running"
  /\ fetches < 2
  /\ pc' = "Starting"
  /\ UNCHANGED <<runExit, mainpc, callsigns, fetches, directory, feedOpens, received,
                 tasks, posted, stderr>>

\* line 91: the feed sequence ends; run returns
FeedEnd ==
  /\ pc = "Running"
  /\ pc' = "Stopped"
  /\ runExit' = "return"
  /\ UNCHANGED <<mainpc, callsigns, fetches, directory, feedOpens, received, tasks, posted, stderr>>

\* line 91: the process is asked to stop while run waits for a frame
Shutdown ==
  /\ pc = "Running"
  /\ pc' = "Stopped"
  /\ runExit' = "cancel"
  /\ UNCHANGED <<mainpc, callsigns, fetches, directory, feedOpens, received, tasks, posted, stderr>>

(***************************************************************************)
(* The task of one frame (line 93 running lines 46-73 and 26-44).          *)
(***************************************************************************)
\* a task that ends with an exception nobody retrieves: the event loop
\* reports it on standard error when the task object is released
Failed(k, exc) ==
  /\ tasks' = [tasks EXCEPT ![k].state = "raised", ![k].exc = exc]
  /\ stderr' = stderr \cup {[task |-> k, line |-> "Task exception was never retrieved",
                            exc |-> exc]}

\* the task starts: handle_packet runs up to the await of session.post.
\* The event loop runs scheduled tasks in the order they were created.
TaskStart ==
  /\ mainpc # "loop_closed"
  /\ \E k \in 1..Len(tasks) :
       /\ tasks[k].state = "pending"
       /\ \A j \in 1..(k - 1) : tasks[j].state # "pending"
       /\ LET out == HandlePacket(received[k])
          IN CASE out.kind = "raise" -> Failed(k, out.exc)
               [] out.kind = "post" /\ mainpc = "in_session" ->
                    /\ tasks' = [tasks EXCEPT ![k].state = "posting"]
                    /\ UNCHANGED stderr
               [] out.kind = "post" /\ mainpc # "in_session" ->
                    Failed(k, "RuntimeError")
               [] OTHER ->
                    /\ tasks' = [tasks EXCEPT ![k].state = "done"]
                    /\ UNCHANGED stderr
  /\ UNCHANGED <<pc, runExit, mainpc, callsigns, fetches, directory, feedOpens, received, posted>>

\* mutant: requests go through one ordered queue
DeliverInOrder ==
  /\ mainpc = "in_session"
  /\ \E k \in 1..Len(tasks) :
       /\ tasks[k].state = "posting"
       /\ \A j \in 1..(k - 1) : tasks[j].state # "posting"
       /\ posted' = Append(posted, [task |-> k, data |-> HandlePacket(received[k]).data])
       /\ tasks' = [tasks EXCEPT ![k].state = "delivered"]
  /\ UNCHANGED <<pc, runExit, mainpc, callsigns, fetches, directory, feedOpens, received,
                 stderr>>

\* mutant: the listener numbers its messages
DeliverCounting ==
  /\ mainpc = "in_session"
  /\ \E k \in 1..Len(tasks) :
       /\ tasks[k].state = "posting"
       /\ posted' = Append(posted,
            [task |-> k,
             data |-> [HandlePacket(received[k]).data EXCEPT
                         !.plugin_output = @ \o IntStr(Len(posted))]])
       /\ tasks' = [tasks EXCEPT ![k].state = "delivered"]
  /\ UNCHANGED <<pc, runExit, mainpc, callsigns, fetches, directory, feedOpens, received,
                 stderr>>

\* the request of a task reaches the backend (lines 38-41)
Deliver ==
  /\ mainpc = "in_session"
  /\ \E k \in 1..Len(tasks) :
       /\ tasks[k].state = "posting"
       /\ posted' = Append(posted, [task |-> k, data |-> HandlePacket(received[k]).data])
       /\ tasks' = [tasks EXCEPT ![k].state = "delivered"]
  /\ UNCHANGED <<pc, runExit, mainpc, callsigns, fetches, directory, feedOpens, received, stderr>>

\* mutant: a non-success answer makes the task send the request again
RespondRetry ==
  /\ mainpc = "in_session"
  /\ \E k \in 1..Len(tasks), status \in Statuses :
       /\ tasks[k].state = "delivered"
       /\ Len(posted) < 2 * Len(received)
       /\ tasks' = [tasks EXCEPT ![k].state = IF status = 200 THEN "done" ELSE "posting",
                                 ![k].status = status]
  /\ UNCHANGED <<pc, runExit, mainpc, callsigns, fetches, directory, feedOpens, received,
                 posted, stderr>>

\* the backend answers and the task resumes (lines 41-44)
Respond ==
  /\ mainpc = "in_session"
  /\ \E k \in 1..Len(tasks), status \in Statuses :
       /\ tasks[k].state = "delivered"
       /\ LET r == OnResponse(status)
          IN IF "exc" \in DOMAIN r
             THEN /\ tasks' = [tasks EXCEPT ![k].state = "raised", ![k].exc = r.exc,
                                            ![k].status = status]
                  /\ stderr' = stderr \cup
                       {[task |-> k, line |-> "Task exception was never retrieved",
                         exc |-> r.exc]}
             ELSE /\ tasks' = [tasks EXCEPT ![k].state = "done", ![k].status = status]
                  /\ stderr' = IF r.written /\ r.to = "stderr"
                               THEN stderr \cup {[task |-> k, line |-> "Error:",
                                                  exc |-> "none"]}
                               ELSE stderr
  /\ UNCHANGED <<pc, runExit, mainpc, callsigns, fetches, directory, feedOpens, received, posted>>

\* mutant: the exception of the POST reaches the read loop and ends run
TransportErrorPropagates ==
  /\ mainpc # "loop_closed"
  /\ \E k \in 1..Len(tasks) :
       /\ tasks[k].state \in {"posting", "delivered"}
       /\ Failed(k, "ClientError")
  /\ pc' = "Stopped"
  /\ runExit' = "raise"
  /\ UNCHANGED <<mainpc, callsigns, fetches, directory, feedOpens, received, posted>>

\* the POST fails in transport, before or after the request arrived
\* (line 38 raises aiohttp.ClientError inside the task)
TransportError ==
  /\ mainpc # "loop_closed"
  /\ \E k \in 1..Len(tasks) :
       /\ tasks[k].state \in {"posting", "delivered"}
       /\ Failed(k, "ClientError")
  /\ UNCHANGED <<pc, runExit, mainpc, callsigns, fetches, directory, feedOpens, received, posted>>

(***************************************************************************)
(* main (lines 142-148).                                                   *)
(***************************************************************************)
\* run has ended: the async with block closes the HTTP session
CloseSession ==
  /\ pc = "Stopped"
  /\ mainpc = "in_session"
  /\ mainpc' = "session_closed"
  /\ UNCHANGED <<pc, runExit, callsigns, fetches, directory, feedOpens, received, tasks, posted,
                 stderr>>

\* a task the event loop cancels when main has ended
Cancelled(t) ==
  IF t.state \in {"pending", "posting", "delivered"}
  THEN [t EXCEPT !.state = "cancelled", !.exc = "CancelledError"]
  ELSE t

\* main returns: the event loop cancels every task still pending and closes
CloseLoop ==
  /\ mainpc = "session_closed"
  /\ mainpc' = "loop_closed"
  /\ tasks' = [k \in 1..Len(tasks) |-> Cancelled(tasks[k])]
  /\ UNCHANGED <<pc, runExit, callsigns, fetches, directory, feedOpens, received, posted, stderr>>

(***************************************************************************)
(* Specifications.                                                         *)
(***************************************************************************)
Next ==
  \/ FetchEmpty
  \/ FetchFail
  \/ OpenFeed
  \/ ConnectFail
  \/ ReadFrame(FeedFrames, MaxFrames)
  \/ FeedEnd
  \/ Shutdown
  \/ TaskStart
  \/ Deliver
  \/ Respond
  \/ TransportError
  \/ CloseSession
  \/ CloseLoop

Spec == Init /\ [][Next]_vars

\* the same program, reading one frame drawn from every frame shape
NextClassify ==
  \/ FetchEmpty
  \/ FetchFail
  \/ OpenFeed
  \/ ConnectFail
  \/ ReadFrame(AllFrames, 1)
  \/ FeedEnd
  \/ Shutdown
  \/ TaskStart
  \/ Deliver
  \/ Respond
  \/ TransportError
  \/ CloseSession
  \/ CloseLoop

SpecClassify == Init /\ [][NextClassify]_vars

\* the same program, fed frames that fail to decode
NextMalformed ==
  \/ FetchEmpty
  \/ FetchFail
  \/ OpenFeed
  \/ ConnectFail
  \/ ReadFrame(MalformedFrames, MaxFrames)
  \/ FeedEnd
  \/ Shutdown
  \/ TaskStart
  \/ Deliver
  \/ Respond
  \/ TransportError
  \/ CloseSession
  \/ CloseLoop

SpecMalformed == Init /\ [][NextMalformed]_vars

(***************************************************************************)
(* Properties.                                                             *)
(***************************************************************************)
\* the frame a request was issued for
FrameOf(p) == received[p.task]

CommaFree(t) == \A i \in 1..Len(t) : t[i] # COMMA[1]

HasPerf(p) == "performance_data" \in DOMAIN p.data

TelemetryShaped(f) ==
  /\ f.info.class = "InformationField"
  /\ f.info.data_type = "TELEMETRY_DATA"
  /\ StartsWith(f.info.comment, HASH)

IgateShaped(f) ==
  /\ f.info.class = "InformationField"
  /\ f.info.data_type = "STATION_CAPABILITIES"
  /\ StartsWith(f.info.comment, IGATE)

\* the read loop can take the next frame now
CanRead == ENABLED ReadFrame(FeedFrames, MaxFrames)

\* the directory query answered with an empty list
EmptyFetched == fetches > 0 /\ callsigns = <<>> /\ runExit # "raise"

\* C1: when get_callsigns returns an empty list, the Listener is Stopped by a
\* plain return, and no feed connection is opened, no frame read, no task
\* created and no check submitted, in every state from then on.
C1_EmptyDirectoryStops ==
  EmptyFetched =>
    /\ pc = "Stopped"
    /\ runExit = "return"
    /\ fetches = 1
    /\ feedOpens = <<>>
    /\ received = <<>>
    /\ tasks = <<>>
    /\ posted = <<>>

C1_Witness == EmptyFetched /\ mainpc = "loop_closed"

\* C2: every frame read has exactly one task, tasks[k] for received[k]; tasks
\* begin in the order of their frames; and while Running the loop can read
\* the next frame whatever the state of the tasks already created.
C2_OneTaskPerFrameNoWait ==
  /\ Len(tasks) = Len(received)
  /\ \A k \in 1..(Len(tasks) - 1) :
       tasks[k].state = "pending" => tasks[k + 1].state \in {"pending", "cancelled"}
  /\ (pc = "Running" /\ Len(received) < MaxFrames) => CanRead

\* frame 2 was read while the task of frame 1 was still in flight
C2_Witness ==
  /\ pc = "Running"
  /\ Len(received) = 2
  /\ tasks[1].state \in {"posting", "delivered"}
  /\ tasks[2].state = "pending"

\* a task whose submission got a non-success answer
GotNonSuccess(k) == tasks[k].status # 0 /\ tasks[k].status # 200

\* C3: a non-success answer to a submission is logged as an error by
\* submit_check, the task ends without an exception, the Listener stays in
\* the state it was in and the loop can still read the next frame.
C3_NonSuccessLogged ==
  \A k \in 1..Len(tasks) :
    GotNonSuccess(k) =>
      /\ [task |-> k, line |-> "Error:", exc |-> "none"] \in stderr
      /\ tasks[k].exc = "none"
      /\ runExit # "raise"
      /\ (pc = "Running" /\ Len(received) < MaxFrames) => CanRead

\* C4: a step in which the POST of task k fails in transport leaves the
\* Listener state, the frames read, the requests delivered and every other
\* task as they were, and the failure is reported for task k alone; run never
\* ends by an exception while a frame has been read; and the loop can still
\* read the next frame.
C4_Step ==
  \A k \in 1..Len(tasks) :
    (tasks[k].exc # "ClientError" /\ tasks'[k].exc = "ClientError") =>
      /\ pc' = pc
      /\ runExit' = runExit
      /\ mainpc' = mainpc
      /\ received' = received
      /\ posted' = posted
      /\ Len(tasks') = Len(tasks)
      /\ \A j \in 1..Len(tasks) : j # k => tasks'[j] = tasks[j]
      /\ tasks'[k].state = "raised"
      /\ stderr' = stderr \cup {[task |-> k, line |-> "Task exception was never retrieved",
                                exc |-> "ClientError"]}

C4_State ==
  /\ (runExit = "raise" => received = <<>>)
  /\ (pc = "Running" /\ Len(received) < MaxFrames) => CanRead

C4_TransportErrorIsolated == []C4_State /\ [][C4_Step]_vars

\* the first submission failed in transport; a frame read after the failure
\* was submitted and answered
C4_Witness ==
  /\ Len(tasks) = 2
  /\ tasks[1].exc = "ClientError"
  /\ tasks[2].state = "done"
  /\ tasks[2].status = 200
  /\ posted = <<[task |-> 2, data |-> HandlePacket(received[2]).data]>>

\* C5: no task is cancelled or ends on the closed session: every task created
\* for a frame runs to the end of its submission.
C5_InFlightFinish ==
  \A k \in 1..Len(tasks) :
    /\ tasks[k].state # "cancelled"
    /\ tasks[k].exc # "RuntimeError"
    /\ (mainpc = "loop_closed" => tasks[k].state \in {"done", "raised"})

\* the text after the fixed part of metric i of n telemetry metrics
TelemPrefix(i, n) ==
  IF i = 1 THEN STR_telem_seq
  ELSE IF i = n THEN STR_telem_bits
  ELSE STR_telem_analog \o <<48 + (i - 2)>> \o STR_eq

\* metrics m are those of the telemetry comment c
TelemMetricsOf(m, c) ==
  /\ Len(m) >= 2
  /\ \A i \in 1..Len(m) : StartsWith(m[i], TelemPrefix(i, Len(m)))
  /\ LET f == [i \in 1..Len(m) |->
                 SubSeq(m[i], Len(TelemPrefix(i, Len(m))) + 1, Len(m[i]))]
     IN /\ \A i \in 1..Len(m) : CommaFree(f[i])
        /\ HASH \o Join(f, COMMA) = c

\* an ASCII comment with at least two comma-separated fields after '#'
TelemetryWellFormed(f) ==
  /\ TelemetryShaped(f)
  /\ IsAscii(f.info.comment)
  /\ \E i \in 2..Len(f.info.comment) : f.info.comment[i] = COMMA[1]

\* C6: a telemetry frame "#seq,a0,...,an,bits" is submitted, never rejected,
\* with metrics telem_seq=seq, telem_analog0=a0, ..., telem_analogN=an,
\* telem_bits=bits in that order and the whole comment as message.
C6_TelemetryMetrics ==
  /\ \A k \in 1..Len(tasks) :
       TelemetryWellFormed(received[k]) =>
         tasks[k].exc \notin {"ValueError", "UnicodeDecodeError"}
  /\ \A i \in 1..Len(posted) :
       TelemetryShaped(FrameOf(posted[i])) =>
         /\ HasPerf(posted[i])
         /\ TelemMetricsOf(posted[i].data.performance_data,
                           FrameOf(posted[i]).info.comment)
         /\ posted[i].data.plugin_output = STR_OK \o FrameOf(posted[i]).info.comment

\* a telemetry frame with two analog fields was submitted
C6_Witness ==
  \E i \in 1..Len(posted) :
    /\ TelemetryWellFormed(FrameOf(posted[i]))
    /\ Len(posted[i].data.performance_data) = 4

\* the tag without its comma
IgateTag == SubSeq(IGATE, 1, Len(IGATE) - 1)

\* C7: a station-capabilities frame "IGATE,t1,t2,..." is submitted with
\* metrics t1, t2, ... (the comma-separated tokens after the tag, in order,
\* the tag dropped) and the whole comment as message.
C7_IgateMetrics ==
  /\ \A k \in 1..Len(tasks) :
       (IgateShaped(received[k]) /\ IsAscii(received[k].info.comment)) =>
         tasks[k].exc \notin {"ValueError", "UnicodeDecodeError"}
  /\ \A i \in 1..Len(posted) :
       IgateShaped(FrameOf(posted[i])) =>
         /\ HasPerf(posted[i])
         /\ LET m == posted[i].data.performance_data
            IN /\ Len(m) >= 1
               /\ \A j \in 1..Len(m) : CommaFree(m[j])
               /\ Join(<<IgateTag>> \o m, COMMA) = FrameOf(posted[i]).info.comment
         /\ posted[i].data.plugin_output = STR_OK \o FrameOf(posted[i]).info.comment

\* a beacon with two tokens was submitted
C7_Witness ==
  \E i \in 1..Len(posted) :
    /\ IgateShaped(FrameOf(posted[i]))
    /\ Len(posted[i].data.performance_data) = 2
    /\ posted[i].data.performance_data[1] # <<>>

\* the branch the precedence order gives a frame
ExpectedBranch(f) ==
  IF f.info.class = "PositionReport" THEN "position"
  ELSE IF TelemetryShaped(f) THEN "telemetry"
  ELSE IF IgateShaped(f) THEN "igate"
  ELSE "generic"

\* C8: every frame takes exactly the branch the order position, telemetry,
\* status beacon, generic gives it: a position report is submitted without
\* metrics whatever its comment begins with, a telemetry-shaped frame is
\* submitted with telemetry metrics and never as generic, a beacon with its
\* tokens, anything else without metrics.
C8_Precedence ==
  /\ \A k \in 1..Len(received) :
       HandlePacket(received[k]).branch = ExpectedBranch(received[k])
  /\ \A i \in 1..Len(posted) :
       LET f == FrameOf(posted[i])
           b == ExpectedBranch(f)
       IN /\ b \in {"position", "generic"} => ~HasPerf(posted[i])
          /\ b = "telemetry" =>
               /\ HasPerf(posted[i])
               /\ StartsWith(posted[i].data.performance_data[1], STR_telem_seq)
          /\ b = "igate" =>
               /\ HasPerf(posted[i])
               /\ ~StartsWith(posted[i].data.performance_data[1], STR_telem_seq)

\* a position report whose comment begins with '#' was submitted
C8_Witness ==
  \E i \in 1..Len(posted) :
    /\ FrameOf(posted[i]).info.class = "PositionReport"
    /\ StartsWith(FrameOf(posted[i]).info.comment, HASH)
    /\ Len(FrameOf(posted[i]).info.comment) > 1

\* C9: a position report or a generic information field is submitted without
\* a performance_data field and with the decoded comment as message.
C9_NoMetrics ==
  \A i \in 1..Len(posted) :
    LET f == FrameOf(posted[i])
    IN (f.info.class = "PositionReport" \/ (~TelemetryShaped(f) /\ ~IgateShaped(f))) =>
         /\ ~HasPerf(posted[i])
         /\ DOMAIN posted[i].data =
              {"type", "filter", "exit_status", "plugin_output", "check_source"}
         /\ IsAscii(f.info.comment)
         /\ posted[i].data.plugin_output = STR_OK \o f.info.comment

\* a telemetry field that does not begin with '#' was submitted as generic
C9_Witness ==
  \E i \in 1..Len(posted) :
    /\ FrameOf(posted[i]).info.data_type = "TELEMETRY_DATA"
    /\ ~TelemetryShaped(FrameOf(posted[i]))
    /\ FrameOf(posted[i]).info.comment # <<>>

\* C10: every request that reached the backend has exit_status 0 and
\* plugin_output "OK: " followed by the comment of its frame.
C10_AlwaysOk ==
  \A i \in 1..Len(posted) :
    /\ posted[i].data.exit_status = 0
    /\ StartsWith(posted[i].data.plugin_output, STR_OK)
    /\ posted[i].data.plugin_output = STR_OK \o FrameOf(posted[i]).info.comment

\* two frames of different branches were both submitted
C10_Witness ==
  /\ Len(posted) = 2
  /\ HasPerf(posted[1])
  /\ ~HasPerf(posted[2])
  /\ posted[1].task # posted[2].task

\* a comment with a byte outside ASCII
NonAscii(b) == \E i \in 1..Len(b) : b[i] >= 128

\* a request of task k reached the backend
Submitted(k) == \E i \in 1..Len(posted) : posted[i].task = k

\* the event loop's report of the exception that ended task k
Reported(k, exc) ==
  [task |-> k, line |-> "Task exception was never retrieved", exc |-> exc] \in stderr

\* C11: a frame whose comment has a non-ASCII byte is never submitted,
\* whatever branch it takes: its task ends with UnicodeDecodeError, which is
\* reported; run does not end by an exception and the loop can still read
\* the next frame.
C11_NonAsciiDropped ==
  /\ \A k \in 1..Len(received) :
       NonAscii(received[k].info.comment) =>
         /\ ~Submitted(k)
         /\ tasks[k].state \in {"pending", "raised", "cancelled"}
         /\ tasks[k].state = "raised" =>
              (tasks[k].exc = "UnicodeDecodeError" /\ Reported(k, "UnicodeDecodeError"))
  /\ (received # <<>> => runExit # "raise")
  /\ (pc = "Running" /\ Len(received) < MaxFrames) =>
       ENABLED ReadFrame(MalformedFrames, MaxFrames)

\* a beacon that failed to decode, and a later frame submitted and answered
C11_Witness ==
  /\ Len(tasks) = 2
  /\ IgateShaped(received[1])
  /\ tasks[1].exc = "UnicodeDecodeError"
  /\ tasks[2].state = "done"
  /\ tasks[2].status = 200
  /\ Submitted(2)

\* a telemetry comment with fewer than two fields after '#'
TooFewFields(f) == TelemetryShaped(f) /\ CommaFree(f.info.comment)

\* C12: a telemetry frame with fewer than two fields after '#' (the bare '#'
\* included) is never submitted: its task ends with an exception, ValueError
\* when the comment is ASCII.
C12_TooFewFieldsRejected ==
  \A k \in 1..Len(received) :
    TooFewFields(received[k]) =>
      /\ ~Submitted(k)
      /\ tasks[k].state \in {"pending", "raised", "cancelled"}
      /\ tasks[k].state = "raised" =>
           /\ tasks[k].exc \in {"ValueError", "UnicodeDecodeError"}
           /\ ~NonAscii(received[k].info.comment) => tasks[k].exc = "ValueError"
           /\ Reported(k, tasks[k].exc)

\* the bare comment '#' was rejected
C12_Witness ==
  \E k \in 1..Len(received) :
    /\ TelemetryShaped(received[k])
    /\ received[k].info.comment = HASH
    /\ tasks[k].exc = "ValueError"

\* the directory query failed: no answer, a non-success status, or a body
\* that is not the expected JSON
DirectoryFailed ==
  \/ directory.transport = "error"
  \/ /\ directory.transport = "ok"
     /\ (directory.status # 200 \/ directory.body.kind # "results")

\* C13: when the directory query fails, the Listener never is Running, no
\* feed is opened, no frame read, nothing submitted.
C13_FetchFailureFatal ==
  DirectoryFailed =>
    /\ pc = "Stopped"
    /\ feedOpens = <<>>
    /\ received = <<>>
    /\ posted = <<>>

C14_Step ==
  /\ (pc = "Running" /\ pc' # "Running") => pc' = "Stopped"
  /\ pc = "Stopped" =>
       /\ pc' = "Stopped"
       /\ runExit' = runExit
       /\ fetches' = fetches
       /\ directory' = directory
       /\ callsigns' = callsigns
       /\ feedOpens' = feedOpens
       /\ received' = received
       /\ Len(tasks') = Len(tasks)

\* C14: the Listener leaves Running only for Stopped, and once Stopped it
\* stays Stopped: no further directory query, no feed opened, no frame read,
\* no task created.
C14_StoppedTerminal == [][C14_Step]_vars

\* the feed ended after a frame was read, and the process ran to its end
C14_Witness ==
  /\ pc = "Stopped"
  /\ runExit = "return"
  /\ Len(received) >= 1
  /\ mainpc = "loop_closed"

\* the command of a feed connection names exactly the callsigns cs
FilterNames(command, cs) ==
  /\ StartsWith(command, STR_filter_b)
  /\ Split(SubSeq(command, Len(STR_filter_b) + 1, Len(command)), SLASH) = cs

C15_State ==
  /\ fetches <= 1
  /\ Len(feedOpens) <= 1
  /\ feedOpens # <<>> =>
       /\ fetches = 1
       /\ directory.transport = "ok"
       /\ directory.body.kind = "results"
       /\ callsigns = directory.body.results
       /\ FilterNames(feedOpens[1], directory.body.results)
  /\ pc = "Running" => Len(feedOpens) = 1

C15_Step ==
  fetches = 1 =>
    /\ fetches' = 1
    /\ directory' = directory
    /\ callsigns' = callsigns
    /\ feedOpens' = feedOpens

\* C15: the directory is queried at most once, before the feed is opened, and
\* never again; the feed is opened at most once, with the command
\* "filter b/<cs1>/<cs2>/..." naming exactly the callsigns of the answer; the
\* list and the command never change afterwards.
C15_DirectoryOnce == []C15_State /\ [][C15_Step]_vars

\* a session filtered to two callsigns has read a frame
C15_Witness ==
  /\ pc = "Running"
  /\ Len(callsigns) = 2
  /\ Len(received) >= 1
  /\ feedOpens = <<STR_filter_b \o CS1 \o SLASH \o CS2>>

\* the request of task k can be the next to reach the backend
CanDeliver(k) == ENABLED (Deliver /\ tasks'[k].state = "delivered")

\* C16: whenever the requests of two tasks are both on their way, either can
\* reach the backend first: the order of arrival is not fixed by the order
\* of the frames.
C16_NoOrdering ==
  \A j \in 1..Len(tasks), k \in 1..Len(tasks) :
    (j < k /\ tasks[j].state = "posting" /\ tasks[k].state = "posting"
       /\ mainpc = "in_session") =>
      (CanDeliver(j) /\ CanDeliver(k))

\* two frames of one station, the check of the later one arrived first
C16_Witness ==
  /\ Len(posted) = 2
  /\ posted[1].task = 2
  /\ posted[2].task = 1
  /\ received[1].source = received[2].source

\* tasks created and not yet finished
InFlight ==
  {k \in 1..Len(tasks) : tasks[k].state \in {"pending", "posting", "delivered"}}

\* C17: while Running, the loop can read the next frame and add its task to
\* those in flight however many are in flight already.
C17_NoBackpressure ==
  (pc = "Running" /\ Len(received) < MaxFrames) =>
    ENABLED (ReadFrame(FeedFrames, MaxFrames) /\ InFlight' = InFlight \cup {Len(tasks) + 1})

\* every frame the feed delivered has its task in flight, none answered
C17_Witness ==
  /\ Len(received) = MaxFrames
  /\ Cardinality(InFlight) = MaxFrames
  /\ \A k \in 1..Len(tasks) : tasks[k].state \in {"posting", "delivered"}

C18_State ==
  /\ Len(posted) <= Len(received)
  /\ \A i \in 1..Len(posted), j \in 1..Len(posted) :
       i # j => posted[i].task # posted[j].task

C18_Step ==
  /\ Len(posted') <= Len(posted) + 1
  /\ \A k \in 1..Len(tasks) :
       tasks[k].state \in {"delivered", "done", "raised", "cancelled"} =>
         tasks'[k].state \in {"delivered", "done", "raised", "cancelled"}

\* C18: at most one request per frame reaches the backend: the requests are
\* of distinct tasks, never more than the frames read, and a task whose
\* request was delivered or that has ended never sends again.
C18_AtMostOnce == []C18_State /\ [][C18_Step]_vars

\* a submission was answered with an error, another failed in transport after
\* delivery, and the process ran to its end with one request per frame
C18_Witness ==
  /\ mainpc = "loop_closed"
  /\ Len(received) = 2
  /\ Len(posted) = 2
  /\ \E k \in 1..2 : GotNonSuccess(k)
  /\ \E k \in 1..2 : tasks[k].exc = "ClientError"

\* C19: every request is of a task whose frame was read on an opened feed,
\* and its filter expression names the source of that frame.
C19_AddressedToSource ==
  /\ posted # <<>> => (fetches = 1 /\ Len(feedOpens) = 1)
  /\ \A i \in 1..Len(posted) :
       /\ posted[i].task \in 1..Len(received)
       /\ posted[i].data.filter
            = STR_filter_head \o received[posted[i].task].source \o STR_quote

\* requests for two different stations were delivered
C19_Witness ==
  /\ Len(posted) = 2
  /\ received[posted[1].task].source = CS1
  /\ received[posted[2].task].source = CS2

====
